---- MODULE Spec2Model ----
(***************************************************************************)
(* A model of weather.py: the wall-clock scheduler (Loop), the warning     *)
(* derivation (simplify_hour, Status, condition_pairs_to_string), the      *)
(* Weather checks, the Notifications sender and main's polling loop with   *)
(* its failure/backoff handling.                                           *)
(*                                                                         *)
(* Time.  The wall clock is `clock`, counted in ticks since local          *)
(* midnight; a minute has TicksPerMinute ticks and the clock wraps at the  *)
(* end of the day.  Time passes only where the process blocks: in a        *)
(* network call, which lasts one of CallDurations (requests.get/post are   *)
(* called without a timeout, so a call may also hang for a long time), and *)
(* in time.sleep, which lasts the value of `sleep` or, as the scheduling   *)
(* of the system may delay its return, up to MaxOversleep ticks more.      *)
(* Statements between two blocking points take no ticks.                   *)
(*                                                                         *)
(* Numbers.  The floats of a raw hourly record are fixed-point integers in *)
(* hundredths (temp 30015 is 300.15 K, pop 60 is 0.6, uvi 500 is 5.0).     *)
(* Strings are TLA+ strings; a glyph is written by its code point.         *)
(*                                                                         *)
(* Specifications.  Spec is main.  The others run one function from inputs *)
(* drawn in their Init: SpecFn (Status, get_most_important_warning),       *)
(* SpecHour (simplify_hour, then Status), SpecPairs                        *)
(* (condition_pairs_to_string), SpecReport (check_report on a given reply) *)
(* and SpecLoop (Loop.__init__).                                           *)
(***************************************************************************)
EXTENDS Integers, Sequences, FiniteSets, TLC

\* ------------------------------------------------------------------ bounds
TicksPerMinute == 2

\* A network call that does not hang lasts 0..MaxShortCall ticks.
MaxShortCall == 1

\* time.sleep may return up to MaxOversleep ticks late.
MaxOversleep == 1

\* ----------------------------------------------------------- small helpers
Range(s) == { s[i] : i \in DOMAIN s }

Min(a, b) == IF a <= b THEN a ELSE b

\* Python's int() of a fixed-point number with `scale` units per 1: truncation
\* toward zero.
TruncDiv(n, scale) == IF n >= 0 THEN n \div scale ELSE -((-n) \div scale)

\* Python's None, as a value no number of the model takes.
None == -1000000

\* dict.get(key): the value, or None when the key is absent.
Get(d, key) == IF key \in DOMAIN d THEN d[key] ELSE None

RECURSIVE Join(_, _)
\* sep.join(parts)
Join(parts, sep) ==
    IF Len(parts) = 0 THEN ""
    ELSE IF Len(parts) = 1 THEN parts[1]
    ELSE parts[1] \o sep \o Join(Tail(parts), sep)

\* f'{n:02}': at least two digits, zero-padded.
Fmt02(n) == IF n >= 0 /\ n < 10 THEN "0" \o ToString(n) ELSE ToString(n)

\* ------------------------------------------------------------- wall clock
DayTicks == 24 * 60 * TicksPerMinute

\* datetime.now().hour, .minute and .second of a clock value.
HourOf(c) == c \div (60 * TicksPerMinute)

MinuteOf(c) == (c \div TicksPerMinute) % 60

SecondOf(c) == ((c % TicksPerMinute) * 60) \div TicksPerMinute

\* The minute of the day a clock value lies in, 0..1439.
DayMinute(c) == c \div TicksPerMinute

\* A duration in seconds as a number of ticks.
TicksOf(seconds) == (seconds * TicksPerMinute) \div 60

\* strftime("%H:%M")
StrfHM(c) == Fmt02(HourOf(c)) \o ":" \o Fmt02(MinuteOf(c))

\* strftime("%H:%M:%S"); the date part of "%Y-%m-%d %H:%M:%S" is not modelled.
StrfHMS(c) == StrfHM(c) \o ":" \o Fmt02(SecondOf(c))

\* ------------------------------------------------------ Loop (the scheduler)
\* A stamp "HH:MM" is the sequence of its characters.
DefaultNextHourChecks ==
    << <<"8", ":", "0", "0">>, <<"1", "3", ":", "0", "0">>,
       <<"1", "7", ":", "0", "0">>, <<"2", "0", ":", "0", "0">> >>

DefaultReportChecks ==
    << <<"7", ":", "0", "0">>, <<"1", "3", ":", "0", "0">> >>

DigitValue(ch) ==
    CASE ch = "0" -> 0 [] ch = "1" -> 1 [] ch = "2" -> 2 [] ch = "3" -> 3
      [] ch = "4" -> 4 [] ch = "5" -> 5 [] ch = "6" -> 6 [] ch = "7" -> 7
      [] ch = "8" -> 8 [] ch = "9" -> 9

IsDigits(chars) ==
    /\ Len(chars) > 0
    /\ \A i \in DOMAIN chars :
          chars[i] \in {"0", "1", "2", "3", "4", "5", "6", "7", "8", "9"}

RECURSIVE ParseInt(_)
\* int(text) of a string of decimal digits.
ParseInt(chars) ==
    IF Len(chars) = 0 THEN 0
    ELSE 10 * ParseInt(SubSeq(chars, 1, Len(chars) - 1))
         + DigitValue(chars[Len(chars)])

RECURSIVE SplitColon(_)
\* stamp.split(':')
SplitColon(chars) ==
    IF \A i \in DOMAIN chars : chars[i] # ":" THEN << chars >>
    ELSE LET k == CHOOSE i \in DOMAIN chars :
                     /\ chars[i] = ":"
                     /\ \A j \in 1..(i - 1) : chars[j] # ":"
         IN  << SubSeq(chars, 1, k - 1) >>
             \o SplitColon(SubSeq(chars, k + 1, Len(chars)))

\* One stamp of Loop.__init__ is accepted: two integer parts that pass the
\* two assertions.
StampAccepted(chars) ==
    LET parts == SplitColon(chars)
    IN  /\ Len(parts) = 2
        /\ IsDigits(parts[1])
        /\ IsDigits(parts[2])
        /\ 0 <= ParseInt(parts[1]) /\ ParseInt(parts[1]) <= 23
        /\ 0 <= ParseInt(parts[2]) /\ ParseInt(parts[2]) <= 60

\* The (hh, mm) pair an accepted stamp becomes.
ParseStamp(chars) ==
    LET parts == SplitColon(chars)
    IN  << ParseInt(parts[1]), ParseInt(parts[2]) >>

\* The list Loop.__init__ stores for a list of accepted stamps.
ParseSchedule(stamps) == [ i \in DOMAIN stamps |-> ParseStamp(stamps[i]) ]

\* Loop.__init__ completes (no assertion fails, no stamp is malformed).
LoopConstructed(nextHourStamps, reportStamps) ==
    /\ \A i \in DOMAIN nextHourStamps : StampAccepted(nextHourStamps[i])
    /\ \A i \in DOMAIN reportStamps : StampAccepted(reportStamps[i])

\* Loop.next_hour_checks_string / Loop.report_checks_string
ChecksString(checks) ==
    Join([ i \in DOMAIN checks |-> Fmt02(checks[i][1]) \o ":" \o Fmt02(checks[i][2]) ],
         ", ")

RECURSIVE ScanHourOnly(_, _, _)
\* A scan that compares the hour and forgets the minute.
ScanHourOnly(checks, hour, minute) ==
    IF Len(checks) = 0 THEN FALSE
    ELSE IF checks[1][1] = hour THEN TRUE
    ELSE ScanHourOnly(Tail(checks), hour, minute)

RECURSIVE ScanChecks(_, _, _)
\* The loop of regular_is_triggered and of report_is_triggered: the first entry
\* equal to (now.hour, now.minute) returns True, the end of the list False.
ScanChecks(checks, hour, minute) ==
    IF Len(checks) = 0 THEN FALSE
    ELSE IF checks[1][1] = hour /\ checks[1][2] = minute THEN TRUE
    ELSE ScanChecks(Tail(checks), hour, minute)

\* Loop.regular_is_triggered() of a Loop object l, called at clock value c.
regular_is_triggered(l, c) ==
    ScanChecks(l.next_hour_checks_at, HourOf(c), MinuteOf(c))

\* Loop.report_is_triggered() of a Loop object l, called at clock value c.
report_is_triggered(l, c) ==
    ScanChecks(l.report_checks_at, HourOf(c), MinuteOf(c))

\* ------------------------------------------------------------ simplify_hour
\* A raw hourly record is a function from the fields it has to their values:
\* dt (seconds), uvi, temp (K), wind_speed, pop, rain (the "1h" volume, mm),
\* the last five in hundredths.
KelvinOffset == 27315

\* simplify_hour raises TypeError: arithmetic or int() on a missing field.
SimplifyRaises(h) == ~({"temp", "wind_speed", "pop"} \subseteq DOMAIN h)

\* The dict simplify_hour returns.  UV keeps the raw value (hundredths, or
\* None); the other values are whole numbers.
simplify_hour(h) ==
    LET temp == h["temp"] - KelvinOffset
        base == [ k \in {"UV", "COLD", "HOT", "WIND", "PROB_RAIN"} |->
                    CASE k = "UV" -> Get(h, "uvi")
                      [] k = "COLD" -> TruncDiv(temp, 100)
                      [] k = "HOT" -> TruncDiv(temp, 100)
                      [] k = "WIND" -> TruncDiv(h["wind_speed"], 100)
                      [] k = "PROB_RAIN" -> TruncDiv(h["pop"] * 100, 100) ]
        rain == Get(h, "rain")
    IN  IF rain # None /\ rain # 0 /\ rain > 20
        THEN [ k \in DOMAIN base \cup {"RAINDROPS"} |->
                 IF k = "RAINDROPS" THEN rain ELSE base[k] ]
        ELSE base

\* ------------------------------------------------------------------- Status
\* The keys of Status.conditions in the order the dict literal gives them.
ConditionOrder == << "PROB_RAIN", "COLD", "UV", "HOT" >>

ConditionNames == Range(ConditionOrder)

\* COLD with a non-strict comparison.
TestColdInclusive(name, x) ==
    CASE name = "PROB_RAIN" -> x > 50
      [] name = "COLD" -> x <= 15
      [] name = "UV" -> x > 200
      [] name = "HOT" -> x > 25

\* Status.conditions[name](x); UV is in hundredths, so x > 2 is x > 200.
Test(name, x) ==
    CASE name = "PROB_RAIN" -> x > 50
      [] name = "COLD" -> x < 15
      [] name = "UV" -> x > 200
      [] name = "HOT" -> x > 25

\* Status.emojis[name]
Emoji(name) ==
    CASE name = "PROB_RAIN" -> "U+1F327"
      [] name = "COLD" -> "U+1F976"
      [] name = "UV" -> "U+E04A"
      [] name = "HOT" -> "U+1F975"

\* Status(d) raises TypeError: a condition's value is None (None > 2).
StatusRaises(d) == \E k \in ConditionNames \cap DOMAIN d : d[k] = None

\* The fields Status.__init__ sets: values, bools and warnings, each a dict
\* (a function from its keys).
Status(d) ==
    [ values   |-> [ k \in DOMAIN d \cap ConditionNames |-> d[k] ],
      bools    |-> [ k \in ConditionNames \cap DOMAIN d |-> Test(k, d[k]) ],
      warnings |-> [ k \in { c \in ConditionNames \cap DOMAIN d : Test(c, Get(d, c)) }
                       |-> Get(d, k) ] ]

\* The keys of Status.warnings in the order the dict holds them: the
\* comprehension iterates conditions.
WarningOrder(status) ==
    SelectSeq(ConditionOrder, LAMBDA k : k \in DOMAIN status.warnings)

\* int(v) of a warning's value.
IntOfValue(name, v) == IF name = "UV" THEN TruncDiv(v, 100) ELSE v

\* Status.get_long_message
get_long_message(status) ==
    LET order == WarningOrder(status)
    IN  Join([ i \in DOMAIN order |->
                 Emoji(order[i]) \o ": "
                 \o ToString(IntOfValue(order[i], status.warnings[order[i]])) ],
             "\n")

\* Status.get_most_important_warning
get_most_important_warning(status) ==
    LET order == WarningOrder(status)
    IN  IF Len(order) > 0 THEN order[1] ELSE ""

\* Status.__bool__
StatusBool(status) == DOMAIN status.warnings = {}

\* ------------------------------------------------ condition_pairs_to_string
\* good_hours: the hours of the pairs whose condition is True, in order.
GoodHours(arr) ==
    LET sel == SelectSeq(arr, LAMBDA p : p[2])
    IN  [ i \in DOMAIN sel |-> sel[i][1] ]

\* A grouping that never joins neighbours: every good hour is its own group.
GroupPairsEach(good, i, acc) == [ k \in DOMAIN good |-> << good[k], good[k] >> ]

RECURSIVE GroupPairs(_, _, _)
\* itertools.groupby over enumerate(good_hours) with key value - index:
\* neighbours with equal keys form one group, kept as (first, last).
GroupPairs(good, i, acc) ==
    IF i > Len(good) THEN acc
    ELSE IF i > 1 /\ good[i] - (i - 1) = good[i - 1] - (i - 2)
         THEN GroupPairs(good, i + 1,
                         [ acc EXCEPT ![Len(acc)] = << acc[Len(acc)][1], good[i] >> ])
         ELSE GroupPairs(good, i + 1, Append(acc, << good[i], good[i] >>))

condition_pairs_to_string(arr) ==
    LET pairs == GroupPairs(GoodHours(arr), 1, << >>)
    IN  Join([ i \in DOMAIN pairs |->
                 IF pairs[i][1] = pairs[i][2]
                 THEN ToString(pairs[i][1])
                 ELSE ToString(pairs[i][1]) \o "-" \o ToString(pairs[i][2]) ],
             ", ")

\* ------------------------------------------------------------------ Weather
\* datetime.fromtimestamp(dt).hour, dt in seconds, local midnight at 0.
FromTimestampHour(dt) == (dt \div 3600) % 24

\* check_report's default last_hour, and the length of the slice hourly[:24].
LastHourDefault == 24

NextDayLen == 24

\* Weather.__init__: the fields the checks write.
WeatherInit == [ is_good |-> TRUE, warning |-> "", message |-> "" ]

\* response[0] raises IndexError, or simplify_hour or Status raises.
CheckNextHourRaises(hourly) ==
    \/ Len(hourly) = 0
    \/ SimplifyRaises(hourly[1])
    \/ StatusRaises(simplify_hour(hourly[1]))

\* The Weather fields after check_next_hour on reply['hourly'] = hourly.
check_next_hour(hourly) ==
    LET status == Status(simplify_hour(hourly[1]))
    IN  IF StatusBool(status)
        THEN [ is_good |-> TRUE, warning |-> "", message |-> "" ]
        ELSE [ is_good |-> FALSE,
               warning |-> "next hour: " \o get_most_important_warning(status),
               message |-> get_long_message(status) ]

RECURSIVE GatherHoursFilter(_, _, _, _, _)
\* A first loop that skips a record outside the window and goes on.
GatherHoursFilter(next_day, i, now_hour, last_hour, hours) ==
    IF i > Len(next_day) THEN [ raised |-> FALSE, hours |-> hours ]
    ELSE IF "dt" \notin DOMAIN next_day[i] THEN [ raised |-> TRUE, hours |-> hours ]
    ELSE LET hh == FromTimestampHour(next_day[i]["dt"])
         IN  IF hh < now_hour \/ hh >= last_hour
             THEN GatherHoursFilter(next_day, i + 1, now_hour, last_hour, hours)
             ELSE IF SimplifyRaises(next_day[i])
                     \/ StatusRaises(simplify_hour(next_day[i]))
             THEN [ raised |-> TRUE, hours |-> hours ]
             ELSE GatherHoursFilter(next_day, i + 1, now_hour, last_hour,
                                    Append(hours, << hh, Status(simplify_hour(next_day[i])) >>))

RECURSIVE GatherHours(_, _, _, _, _)
\* check_report's first loop over next_day from record i on: `hours` grows by
\* (hh, status) until the break; a record without dt, or one simplify_hour or
\* Status rejects, raises.
GatherHours(next_day, i, now_hour, last_hour, hours) ==
    IF i > Len(next_day) THEN [ raised |-> FALSE, hours |-> hours ]
    ELSE IF "dt" \notin DOMAIN next_day[i] THEN [ raised |-> TRUE, hours |-> hours ]
    ELSE LET hh == FromTimestampHour(next_day[i]["dt"])
         IN  IF hh < now_hour \/ hh >= last_hour
             THEN [ raised |-> FALSE, hours |-> hours ]
             ELSE IF SimplifyRaises(next_day[i])
                     \/ StatusRaises(simplify_hour(next_day[i]))
             THEN [ raised |-> TRUE, hours |-> hours ]
             ELSE GatherHours(next_day, i + 1, now_hour, last_hour,
                              Append(hours, << hh, Status(simplify_hour(next_day[i])) >>))

\* hourly[:24]
NextDay(hourly) == SubSeq(hourly, 1, Min(NextDayLen, Len(hourly)))

CheckReportRaises(hourly, now_hour, last_hour) ==
    GatherHours(NextDay(hourly), 1, now_hour, last_hour, << >>).raised

\* cond_arr of check_report for one condition.
CondArr(hours, cond_name) ==
    [ i \in DOMAIN hours |->
        << hours[i][1],
           IF cond_name \in DOMAIN hours[i][2].bools
           THEN hours[i][2].bools[cond_name] ELSE FALSE >> ]

\* An rv with a line for every condition, triggered or not.
ReportLinesAll(hours) ==
    [ i \in DOMAIN ConditionOrder |->
        Emoji(ConditionOrder[i]) \o ": "
        \o condition_pairs_to_string(CondArr(hours, ConditionOrder[i])) ]

\* rv of check_report: one line per condition with a triggered hour.
ReportLines(hours) ==
    LET hit == SelectSeq(ConditionOrder,
                         LAMBDA c : \E i \in DOMAIN hours : CondArr(hours, c)[i][2])
    IN  [ i \in DOMAIN hit |->
            Emoji(hit[i]) \o ": " \o condition_pairs_to_string(CondArr(hours, hit[i])) ]

\* The Weather fields after check_report(last_hour) called at hour now_hour.
check_report(hourly, now_hour, last_hour) ==
    LET hours == GatherHours(NextDay(hourly), 1, now_hour, last_hour, << >>).hours
        rv == ReportLines(hours)
    IN  IF Len(rv) = 0
        THEN [ is_good |-> TRUE, warning |-> "",
               message |-> "Good weather!" \o " " \o "U+1F917" ]
        ELSE [ is_good |-> FALSE, warning |-> "prepare for the day",
               message |-> Join(rv, "\n") ]

\* ------------------------------------------------------------ Notifications
\* A call of requests.post: the place it is made from, and what it carries.
PostCall(site, title, data, priority) ==
    [ site |-> site, title |-> title, data |-> data, priority |-> priority ]

\* An update that posts the title without the message.
updateWithoutMessage(site, w) ==
    PostCall(site,
             Join(<< IF w.is_good = TRUE THEN "U+1F7E2" ELSE "U+1F534", w.warning >>, ": "),
             "", "default")

\* The call Notifications.update(weather) makes.
update(site, w) ==
    PostCall(site,
             Join(<< IF w.is_good = TRUE THEN "U+1F7E2" ELSE "U+1F534", w.warning >>, ": "),
             w.message, "default")

\* The startup call of main.
StartupPostCall(l, c) ==
    PostCall("startup", "",
             "Started script at " \o StrfHMS(c) \o "\n"
             \o "Report checks at: " \o ChecksString(l.report_checks_at) \o "\n"
             \o "Regular checks at: " \o ChecksString(l.next_hour_checks_at),
             "default")

\* The call of the handler's first branch.
FirstFailurePostCall(e, c) ==
    PostCall("first_failure", "weather stopped working",
             "Stopped working at: " \o StrfHM(c) \o "\n"
             \o "reason is: " \o e \o "\n"
             \o "will now check every 15 minutes but push priority will be minimal",
             "max")

\* A second branch that posts at the first branch's priority.
RepeatFailurePostCallMax(c) ==
    PostCall("repeat_failure", "weather not working",
             "still not working at: " \o StrfHM(c), "max")

\* The call of the handler's second branch.
RepeatFailurePostCall(c) ==
    PostCall("repeat_failure", "weather not working",
             "still not working at: " \o StrfHM(c), "min")

\* ------------------------------------------------------ what the services send
\* Raw hourly records (without dt) the data source may send.
RawFine == [ uvi |-> 100, temp |-> 29315, wind_speed |-> 250, pop |-> 20 ]

RawRainy == [ uvi |-> 100, temp |-> 29315, wind_speed |-> 250, pop |-> 60, rain |-> 50 ]

RawHotUV == [ uvi |-> 500, temp |-> 30015, wind_speed |-> 200, pop |-> 60 ]

RawCold == [ uvi |-> 100, temp |-> 28715, wind_speed |-> 250, pop |-> 0 ]

RawNoUvi == [ temp |-> 29315, wind_speed |-> 250, pop |-> 20 ]

RawKinds == { RawFine, RawRainy, RawHotUV, RawCold, RawNoUvi }

\* A raw record with its dt: the start of hour `hour` of the day.
WithDt(raw, hour) ==
    [ k \in DOMAIN raw \cup {"dt"} |-> IF k = "dt" THEN (hour % 24) * 3600 ELSE raw[k] ]

\* An hourly list: consecutive hours from `start`, one record per kind.
MkHourly(start, kinds) == [ i \in DOMAIN kinds |-> WithDt(kinds[i], start + i - 1) ]

\* The hourly lists a reply to check_next_hour may carry (only [0] is read).
NextHourReplies(c) == { MkHourly(HourOf(c), << k >>) : k \in RawKinds } \cup { << >> }

ReportPatterns ==
    { << RawFine, RawFine, RawFine >>,
      << RawRainy, RawRainy, RawFine, RawRainy >>,
      << RawCold, RawHotUV >>,
      << RawFine, RawNoUvi >> }

\* The hourly lists a reply to check_report may carry: from the current hour
\* on, or stale by one hour.
ReportReplies(c) ==
    { MkHourly(HourOf(c), p) : p \in ReportPatterns }
    \cup { MkHourly(HourOf(c) + 23, << RawRainy, RawFine >>) }

\* ------------------------------------------------------------ main: the state
VARIABLES
    loop,        \* the Loop object: its two lists of (hh, mm)
    weather,     \* the Weather object: is_good, warning, message
    has_broken,  \* main's has_broken
    sleep,       \* main's sleep, in seconds
    pc,          \* where main is
    clock,       \* the wall clock, in ticks since midnight
    now_hour,    \* check_report's now.hour
    exc,         \* str(e) of the exception being handled
    snapshot,    \* check_next_hour's simple_dict: << >>, or << the dict >>
    status,      \* check_next_hour's status: << >>, or << the Status >>
    cycle,       \* history of the current iteration: the post calls issued, ...
    hist,        \* history across iterations
    minute,      \* history of the current wall-clock minute
    args,        \* the arguments of a function studied on its own (<< >> in main)
    rv           \* what that function returned: << >>, or << the value >>

vars ==
    << loop, weather, has_broken, sleep, pc, clock, now_hour, exc, snapshot, status,
       cycle, hist, minute, args, rv >>

\* The sleep main sets after a cycle without exception, after the first
\* exception of a streak, and after a later one.
NormalSleep == 60

FirstFailureSleepLong == 60 * 60

FirstFailureSleep == 60 * 15

\* A second-branch sleep below what the assertion accepts.
RepeatFailureSleepShort == 60 - 30

RepeatFailureSleep == 3600

\* The least sleep the assertion at the top of the loop accepts.
AssertMinSleep == 60

\* A time.sleep that returns at once.
SleepTicksNone(seconds) == 0

\* How long time.sleep(seconds) lasts, in ticks.
SleepTicks(seconds) == TicksOf(seconds)

\* A regular check that notifies whatever the status.
RegularNotifiesAlways(w) == TRUE

\* main notifies after check_next_hour iff not weather.is_good.
RegularNotifies(w) == ~w.is_good

\* The streak counter stops counting here.
MaxStreak == 3

Classes == { "report", "regular" }

\* How long a hanging network call may last, in seconds: long enough for a
\* cycle that follows a 15 or 60 minute sleep to meet a scheduled minute.
HangSeconds == { 15 * 60, 45 * 60, 225 * 60 }

\* The durations of a network call, in ticks.
CallDurations == 0..MaxShortCall \cup { TicksOf(sec) : sec \in HangSeconds }

FreshCycle(broken) ==
    [ posts |-> << >>,          \* the requests.post calls issued, in order
      broken_before |-> broken, \* has_broken when the iteration began
      report_trig |-> FALSE,    \* what report_is_triggered returned
      regular_trig |-> FALSE,   \* what regular_is_triggered returned
      report_done |-> FALSE,    \* check_report returned
      regular_done |-> FALSE,   \* check_next_hour returned
      raised |-> FALSE,         \* the try body raised
      handled_at |-> 0,         \* the clock when the except clause ran
      rep_hourly |-> << >>,     \* the list check_report evaluated
      reg_hourly |-> << >>,     \* the list check_next_hour evaluated
      gets |-> 0,               \* the requests.get calls issued
      raised_in |-> "",         \* the if statement the exception came from
      w_before |-> << >> ]      \* the Weather fields when the check under way began

FreshMinute(normal, missed) ==
    [ polled |-> [ c \in Classes |-> FALSE ],  \* the class's predicate was called
      matches |-> [ c \in Classes |-> 0 ],     \* times it returned True (counted to 2)
      normal |-> normal,   \* the loop ran and has_broken was False all minute
      missed |-> missed ]  \* classes whose scheduled minute just went by unpolled

\* The schedule of a class holds minute m of the day.
Scheduled(l, c, m) ==
    LET checks == IF c = "report" THEN l.report_checks_at ELSE l.next_hour_checks_at
    IN  \E i \in DOMAIN checks : checks[i] = << m \div 60, m % 60 >>

Running == pc \notin { "start", "startup_post" }

\* `minute` after the clock advances by n ticks.
MinuteAfter(n) ==
    LET m0 == DayMinute(clock)
        m1 == (clock + n) \div TicksPerMinute
    IN  IF m1 = m0 THEN minute
        ELSE FreshMinute(
               Running /\ ~has_broken,
               { c \in Classes :
                   \/ minute.normal /\ ~minute.polled[c] /\ Scheduled(loop, c, m0)
                   \/ /\ Running /\ ~has_broken
                      /\ \E k \in (m0 + 1)..(m1 - 1) : Scheduled(loop, c, k % (24 * 60)) })

\* The classes with a scheduled minute that goes by, from its first second to
\* its last, in a sleep of n ticks begun now with has_broken True.
DroppedIn(n) ==
    IF ~has_broken THEN {}
    ELSE { c \in Classes :
             \E k \in (DayMinute(clock) + 1)..(((clock + n) \div TicksPerMinute) - 1) :
                 Scheduled(loop, c, k % (24 * 60)) }

Polled(c, trig) ==
    [ minute EXCEPT !.polled[c] = TRUE,
                    !.matches[c] = IF trig THEN Min(@ + 1, 2) ELSE @ ]

Init ==
    /\ LoopConstructed(DefaultNextHourChecks, DefaultReportChecks)
    /\ loop = [ next_hour_checks_at |-> ParseSchedule(DefaultNextHourChecks),
                report_checks_at |-> ParseSchedule(DefaultReportChecks) ]
    /\ weather = WeatherInit
    /\ has_broken = FALSE
    /\ sleep = NormalSleep
    /\ pc = "start"
    /\ clock \in 0..(DayTicks - 1)
    /\ now_hour = 0
    /\ exc = ""
    /\ snapshot = << >>
    /\ status = << >>
    /\ cycle = FreshCycle(FALSE)
    /\ hist = [ streak |-> 0, woke_from |-> 0, fetch_failed |-> FALSE, dropped |-> {} ]
    /\ minute = FreshMinute(FALSE, {})
    /\ args = << >>
    /\ rv = << >>

\* --------------------------------------------------------- main: the actions
\* A network call returns (or raises) after d ticks.
Elapse(d) ==
    /\ clock' = (clock + d) % DayTicks
    /\ minute' = MinuteAfter(d)

\* main issues its startup notification.
StartupPost ==
    /\ pc = "start"
    /\ pc' = "startup_post"
    /\ cycle' = [ cycle EXCEPT !.posts = Append(@, StartupPostCall(loop, clock)) ]
    /\ UNCHANGED << args, rv, loop, snapshot, status, weather, has_broken, sleep, clock, now_hour, exc, hist, minute >>

\* The startup call returns, or raises outside any try: the process ends.
StartupReturn ==
    /\ pc = "startup_post"
    /\ \/ pc' = "top" /\ cycle' = FreshCycle(FALSE)
       \/ pc' = "startup_failed" /\ UNCHANGED cycle
    /\ \E d \in CallDurations : Elapse(d)
    /\ UNCHANGED << args, rv, loop, snapshot, status, weather, has_broken, sleep, now_hour, exc, hist >>

\* The top of the loop: the assertion, then report_is_triggered; when it
\* fires check_report begins: it reads now and issues its requests.get.
PollReport ==
    /\ pc = "top"
    /\ IF sleep < AssertMinSleep
       THEN /\ pc' = "assert_failed"
            /\ UNCHANGED << now_hour, cycle, minute >>
       ELSE LET trig == report_is_triggered(loop, clock)
            IN  /\ cycle' = [ cycle EXCEPT !.report_trig = trig,
                                           !.gets = IF trig THEN @ + 1 ELSE @,
                                           !.w_before = IF trig THEN << weather >> ELSE @ ]
                /\ minute' = Polled("report", trig)
                /\ pc' = IF trig THEN "report_get" ELSE "regular"
                /\ now_hour' = IF trig THEN HourOf(clock) ELSE now_hour
    /\ UNCHANGED << args, rv, loop, snapshot, status, weather, has_broken, sleep, clock, exc, hist >>

\* check_report's requests.get returns: the call or the reply's decoding
\* raises, or the hours are evaluated (which may raise), the Weather fields
\* are set and notifications.update issues its post.
ReportGetReturn ==
    /\ pc = "report_get"
    /\ \E d \in CallDurations : Elapse(d)
    /\ \/ /\ pc' = "except" /\ exc' = "ConnectionError"
          /\ cycle' = [ cycle EXCEPT !.raised = TRUE, !.raised_in = "report" ]
          /\ hist' = [ hist EXCEPT !.fetch_failed = TRUE ]
          /\ UNCHANGED weather
       \/ /\ pc' = "except" /\ exc' = "'hourly'"
          /\ cycle' = [ cycle EXCEPT !.raised = TRUE, !.raised_in = "report" ]
          /\ hist' = [ hist EXCEPT !.fetch_failed = TRUE ]
          /\ UNCHANGED weather
       \/ \E hourly \in ReportReplies(clock') :
            /\ hist' = [ hist EXCEPT !.fetch_failed = FALSE ]
            /\ IF CheckReportRaises(hourly, now_hour, LastHourDefault)
               THEN /\ pc' = "except" /\ exc' = "TypeError"
                    /\ cycle' = [ cycle EXCEPT !.raised = TRUE, !.raised_in = "report" ]
                    /\ UNCHANGED weather
               ELSE /\ weather' = check_report(hourly, now_hour, LastHourDefault)
                    /\ cycle' = [ cycle EXCEPT !.report_done = TRUE,
                                               !.rep_hourly = hourly,
                                               !.w_before = << >>,
                                               !.posts = Append(@, update("report", weather')) ]
                    /\ pc' = "report_post"
                    /\ UNCHANGED exc
    /\ UNCHANGED << args, rv, loop, snapshot, status, has_broken, sleep, now_hour >>

\* A report post whose exception is noted and the try body goes on.
ReportPostReturnSwallow ==
    /\ pc = "report_post"
    /\ \/ pc' = "regular" /\ UNCHANGED << exc, cycle >>
       \/ /\ pc' = "regular" /\ exc' = "ConnectionError"
          /\ cycle' = [ cycle EXCEPT !.raised = TRUE, !.raised_in = "report" ]
    /\ \E d \in CallDurations : Elapse(d)
    /\ UNCHANGED << args, rv, loop, snapshot, status, weather, has_broken, sleep, now_hour, hist >>

\* The report's post returns or raises.
ReportPostReturn ==
    /\ pc = "report_post"
    /\ \/ pc' = "regular" /\ UNCHANGED << exc, cycle >>
       \/ /\ pc' = "except" /\ exc' = "ConnectionError"
          /\ cycle' = [ cycle EXCEPT !.raised = TRUE, !.raised_in = "report" ]
    /\ \E d \in CallDurations : Elapse(d)
    /\ UNCHANGED << args, rv, loop, snapshot, status, weather, has_broken, sleep, now_hour, hist >>

\* A regular poll that also fires for a scheduled minute dropped earlier.
PollRegularDeferred ==
    /\ pc = "regular"
    /\ LET trig == regular_is_triggered(loop, clock) \/ "regular" \in hist.dropped
       IN  /\ cycle' = [ cycle EXCEPT !.regular_trig = trig,
                                       !.gets = IF trig THEN @ + 1 ELSE @,
                                       !.w_before = IF trig THEN << weather >> ELSE @ ]
           /\ minute' = Polled("regular", trig)
           /\ pc' = IF trig THEN "regular_get" ELSE "ok"
    /\ UNCHANGED << args, rv, loop, snapshot, status, weather, has_broken, sleep, clock, now_hour, exc, hist >>

\* regular_is_triggered; when it fires check_next_hour issues its requests.get.
PollRegular ==
    /\ pc = "regular"
    /\ LET trig == regular_is_triggered(loop, clock)
       IN  /\ cycle' = [ cycle EXCEPT !.regular_trig = trig,
                                       !.gets = IF trig THEN @ + 1 ELSE @,
                                       !.w_before = IF trig THEN << weather >> ELSE @ ]
           /\ minute' = Polled("regular", trig)
           /\ pc' = IF trig THEN "regular_get" ELSE "ok"
    /\ UNCHANGED << args, rv, loop, snapshot, status, weather, has_broken, sleep, clock, now_hour, exc, hist >>

\* check_next_hour's requests.get returns: a raise, or the first hour is
\* evaluated (which may raise) and the Weather fields are set; main then
\* issues the post when the weather is not good.
RegularGetReturn ==
    /\ pc = "regular_get"
    /\ \E d \in CallDurations : Elapse(d)
    /\ \/ /\ pc' = "except" /\ exc' = "ConnectionError"
          /\ cycle' = [ cycle EXCEPT !.raised = TRUE, !.raised_in = "regular" ]
          /\ hist' = [ hist EXCEPT !.fetch_failed = TRUE ]
          /\ UNCHANGED << weather, snapshot, status >>
       \/ /\ pc' = "except" /\ exc' = "'hourly'"
          /\ cycle' = [ cycle EXCEPT !.raised = TRUE, !.raised_in = "regular" ]
          /\ hist' = [ hist EXCEPT !.fetch_failed = TRUE ]
          /\ UNCHANGED << weather, snapshot, status >>
       \/ \E hourly \in NextHourReplies(clock') :
            /\ hist' = [ hist EXCEPT !.fetch_failed = FALSE ]
            /\ IF CheckNextHourRaises(hourly)
               THEN /\ pc' = "except"
                    /\ exc' = IF Len(hourly) = 0 THEN "list index out of range"
                              ELSE "TypeError"
                    /\ cycle' = [ cycle EXCEPT !.raised = TRUE, !.raised_in = "regular" ]
                    /\ UNCHANGED << weather, snapshot, status >>
               ELSE /\ weather' = check_next_hour(hourly)
                    /\ snapshot' = << simplify_hour(hourly[1]) >>
                    /\ status' = << Status(simplify_hour(hourly[1])) >>
                    /\ cycle' = [ cycle EXCEPT
                          !.regular_done = TRUE,
                          !.reg_hourly = hourly,
                          !.w_before = << >>,
                          !.posts = IF RegularNotifies(weather')
                                    THEN Append(@, update("regular", weather'))
                                    ELSE @ ]
                    /\ pc' = IF RegularNotifies(weather') THEN "regular_post" ELSE "ok"
                    /\ UNCHANGED exc
    /\ UNCHANGED << args, rv, loop, has_broken, sleep, now_hour >>

\* The regular check's post returns or raises.
RegularPostReturn ==
    /\ pc = "regular_post"
    /\ \/ pc' = "ok" /\ UNCHANGED << exc, cycle >>
       \/ /\ pc' = "except" /\ exc' = "ConnectionError"
          /\ cycle' = [ cycle EXCEPT !.raised = TRUE, !.raised_in = "regular" ]
    /\ \E d \in CallDurations : Elapse(d)
    /\ UNCHANGED << args, rv, loop, snapshot, status, weather, has_broken, sleep, now_hour, hist >>

\* An end of the try body that leaves has_broken as it is.
CycleOkKeepsBroken ==
    /\ pc = "ok"
    /\ sleep' = NormalSleep
    /\ hist' = [ hist EXCEPT !.streak = 0 ]
    /\ pc' = "sleep"
    /\ UNCHANGED << args, rv, loop, snapshot, status, weather, has_broken, clock, now_hour,
                    exc, cycle, minute >>

\* The end of the try body.
CycleOk ==
    /\ pc = "ok"
    /\ sleep' = NormalSleep
    /\ has_broken' = FALSE
    /\ hist' = [ hist EXCEPT !.streak = 0 ]
    /\ pc' = "sleep"
    /\ UNCHANGED << args, rv, loop, snapshot, status, weather, clock, now_hour, exc, cycle, minute >>

\* The except clause up to its post: the first branch sets has_broken first.
HandleException ==
    /\ pc = "except"
    /\ hist' = [ hist EXCEPT !.streak = Min(@ + 1, MaxStreak) ]
    /\ minute' = [ minute EXCEPT !.normal = FALSE ]
    /\ IF ~has_broken
       THEN /\ has_broken' = TRUE
            /\ cycle' = [ cycle EXCEPT !.posts = Append(@, FirstFailurePostCall(exc, clock)),
                                       !.handled_at = clock ]
            /\ pc' = "first_post"
       ELSE /\ UNCHANGED has_broken
            /\ cycle' = [ cycle EXCEPT !.posts = Append(@, RepeatFailurePostCall(clock)),
                                       !.handled_at = clock ]
            /\ pc' = "repeat_post"
    /\ UNCHANGED << args, rv, loop, snapshot, status, weather, sleep, clock, now_hour, exc >>

\* The handler's post returns and sleep is set, or it raises inside the
\* except clause, where nothing catches it: the process ends.
FailurePostReturn ==
    /\ pc \in { "first_post", "repeat_post" }
    /\ \/ /\ sleep' = IF pc = "first_post" THEN FirstFailureSleep ELSE RepeatFailureSleep
          /\ pc' = "sleep"
       \/ /\ pc' = "crashed"
          /\ UNCHANGED sleep
    /\ \E d \in CallDurations : Elapse(d)
    /\ UNCHANGED << args, rv, loop, snapshot, status, weather, has_broken, now_hour, exc, cycle, hist >>

\* time.sleep(sleep), then the next iteration begins.
Sleep ==
    /\ pc = "sleep"
    /\ \E late \in 0..MaxOversleep :
          /\ Elapse(SleepTicks(sleep) + late)
          /\ hist' = [ hist EXCEPT !.woke_from = sleep,
                                    !.dropped = @ \cup DroppedIn(SleepTicks(sleep) + late) ]
    /\ pc' = "top"
    /\ cycle' = FreshCycle(has_broken)
    /\ now_hour' = 0
    /\ exc' = ""
    /\ snapshot' = << >>
    /\ status' = << >>
    /\ UNCHANGED << args, rv, loop, weather, has_broken, sleep >>

Next ==
    \/ StartupPost
    \/ StartupReturn
    \/ PollReport
    \/ ReportGetReturn
    \/ ReportPostReturn
    \/ PollRegular
    \/ RegularGetReturn
    \/ RegularPostReturn
    \/ CycleOk
    \/ HandleException
    \/ FailurePostReturn
    \/ Sleep

Spec == Init /\ [][Next]_vars

TypeOK ==
    /\ pc \in { "start", "startup_post", "startup_failed", "top", "report_get",
                "report_post", "regular", "regular_get", "regular_post", "ok",
                "except", "first_post", "repeat_post", "sleep", "crashed",
                "assert_failed", "fn", "fn_pairs", "fn_report", "fn_hour", "fn_loop", "constructed" }
    /\ clock \in 0..(DayTicks - 1)
    /\ has_broken \in BOOLEAN

\* ------------------------------------------------- Status on its own
\* The values a snapshot may give a key: both sides of each threshold.
SnapshotValues(k) ==
    CASE k = "PROB_RAIN" -> { 50, 51 }
      [] k = "COLD" -> { 14, 15, 26 }
      [] k = "HOT" -> { 14, 25, 26 }
      [] k = "UV" -> { 200, 201, None }
      [] k = "WIND" -> { 3 }

SnapshotKeys == { "PROB_RAIN", "COLD", "UV", "HOT", "WIND" }

\* The dicts Status is applied to: any subset of the keys, with those values.
SnapshotInputs ==
    UNION { { d \in [ ks -> UNION { SnapshotValues(k) : k \in ks } ] :
                \A k \in ks : d[k] \in SnapshotValues(k) } :
            ks \in SUBSET SnapshotKeys }

\* The orders a dict may hold a set of keys in (the order of insertion).
KeyOrders(ks) ==
    { o \in [ 1..Cardinality(ks) -> ks ] : \A i, j \in DOMAIN o : o[i] = o[j] => i = j }

\* Here args is the order in which the dict passed to Status holds its keys.
InitFn ==
    /\ loop = [ next_hour_checks_at |-> ParseSchedule(DefaultNextHourChecks),
                report_checks_at |-> ParseSchedule(DefaultReportChecks) ]
    /\ weather = WeatherInit
    /\ has_broken = FALSE
    /\ sleep = NormalSleep
    /\ pc = "fn"
    /\ clock = 0
    /\ now_hour = 0
    /\ exc = ""
    /\ snapshot \in { << d >> : d \in SnapshotInputs }
    /\ status = << >>
    /\ cycle = FreshCycle(FALSE)
    /\ hist = [ streak |-> 0, woke_from |-> 0, fetch_failed |-> FALSE, dropped |-> {} ]
    /\ minute = FreshMinute(FALSE, {})
    /\ args \in KeyOrders(DOMAIN snapshot[1])
    /\ rv = << >>

\* Status(snapshot): it raises, or the object is built.  No comprehension of
\* bools or warnings iterates d, so the order of its keys is not read.
FnStatus ==
    /\ pc = "fn"
    /\ snapshot # << >>
    /\ status = << >>
    /\ exc = ""
    /\ IF StatusRaises(snapshot[1])
       THEN exc' = "TypeError" /\ UNCHANGED status
       ELSE status' = << Status(snapshot[1]) >> /\ UNCHANGED exc
    /\ UNCHANGED << args, rv, loop, weather, has_broken, sleep, pc, clock, now_hour,
                    snapshot, cycle, hist, minute >>

\* A get_most_important_warning over warnings kept in the order of d's keys.
FnWarningAsGiven ==
    /\ pc = "fn"
    /\ status # << >>
    /\ rv = << >>
    /\ LET order == SelectSeq(args, LAMBDA k : k \in DOMAIN status[1].warnings)
       IN  rv' = << IF Len(order) > 0 THEN order[1] ELSE "" >>
    /\ UNCHANGED << args, loop, weather, has_broken, sleep, pc, clock, now_hour, exc,
                    snapshot, status, cycle, hist, minute >>

\* status.get_most_important_warning() returns.
FnWarning ==
    /\ pc = "fn"
    /\ status # << >>
    /\ rv = << >>
    /\ rv' = << get_most_important_warning(status[1]) >>
    /\ UNCHANGED << args, loop, weather, has_broken, sleep, pc, clock, now_hour, exc,
                    snapshot, status, cycle, hist, minute >>

NextFn == FnStatus \/ FnWarning

SpecFn == InitFn /\ [][NextFn]_vars

\* ------------------------------------- condition_pairs_to_string on its own
\* The main variables a function studied on its own leaves at rest.
FnRest ==
    /\ loop = [ next_hour_checks_at |-> ParseSchedule(DefaultNextHourChecks),
                report_checks_at |-> ParseSchedule(DefaultReportChecks) ]
    /\ weather = WeatherInit
    /\ has_broken = FALSE
    /\ sleep = NormalSleep
    /\ clock = 0
    /\ now_hour = 0
    /\ exc = ""
    /\ cycle = FreshCycle(FALSE)
    /\ hist = [ streak |-> 0, woke_from |-> 0, fetch_failed |-> FALSE, dropped |-> {} ]
    /\ minute = FreshMinute(FALSE, {})

RECURSIVE Ascending(_)
\* The numbers of a finite set in increasing order.
Ascending(S) ==
    IF S = {} THEN << >>
    ELSE LET m == CHOOSE x \in S : \A y \in S : x <= y
         IN  << m >> \o Ascending(S \ { m })

\* The hours of the pairs run from 7 to LastPairHour.
LastPairHour == 14

PairHours == 7..LastPairHour

\* The arguments of condition_pairs_to_string: the sequences of (hour, flag)
\* with strictly increasing hours.
PairInputs ==
    UNION { LET hours == Ascending(S)
            IN  { [ i \in DOMAIN hours |-> << hours[i], hours[i] \in F >> ] :
                    F \in SUBSET S } :
            S \in SUBSET PairHours }

InitPairs ==
    /\ FnRest
    /\ pc = "fn_pairs"
    /\ snapshot = << >>
    /\ status = << >>
    /\ args \in PairInputs
    /\ rv = << >>

\* condition_pairs_to_string(args) returns.
FnPairs ==
    /\ pc = "fn_pairs"
    /\ rv = << >>
    /\ rv' = << condition_pairs_to_string(args) >>
    /\ UNCHANGED << args, loop, weather, has_broken, sleep, pc, clock, now_hour, exc,
                    snapshot, status, cycle, hist, minute >>

NextPairs == FnPairs

SpecPairs == InitPairs /\ [][NextPairs]_vars

\* ----------------------------------------------------- check_report on its own
\* The longest hourly list of the inputs, but for the one that is longer than
\* the slice.
MaxReportLen == 3

\* The records of the inputs: four kinds of weather at the hours 7, 8 and 9.
ReportRecords == { WithDt(k, h) : k \in RawKinds \ { RawNoUvi }, h \in 7..9 }

\* 26 fine hours from midnight on, the 25th of them rainy: longer than the
\* slice, and the hour of the 25th is 0 again.
LongHourly ==
    MkHourly(0, [ i \in 1..(NextDayLen + 2) |-> IF i = NextDayLen + 1 THEN RawRainy ELSE RawFine ])

\* The calls check_report(last_hour) at hour now_hour on a reply whose
\* 'hourly' is hourly: last_hour 9 or the default, and one call whose
\* last_hour the assertion rejects.
ReportInputs ==
    { [ hourly |-> h, now_hour |-> n, last_hour |-> l ] :
        h \in UNION { [ 1..len -> ReportRecords ] : len \in 0..MaxReportLen },
        n \in { 7, 8 }, l \in { 9, LastHourDefault } }
    \cup { [ hourly |-> LongHourly, now_hour |-> 0, last_hour |-> LastHourDefault ],
           [ hourly |-> MkHourly(7, << RawFine, RawNoUvi >>), now_hour |-> 7,
             last_hour |-> LastHourDefault ],
           [ hourly |-> MkHourly(7, << RawFine >>), now_hour |-> 7,
             last_hour |-> LastHourDefault + 1 ] }

InitReport ==
    /\ FnRest
    /\ pc = "fn_report"
    /\ snapshot = << >>
    /\ status = << >>
    /\ args \in ReportInputs
    /\ rv = << >>

\* check_report(last_hour) runs from its assertion to its end, the reply
\* given: it raises, or sets the Weather fields; rv keeps its local `hours`.
FnReport ==
    /\ pc = "fn_report"
    /\ rv = << >>
    /\ exc = ""
    /\ IF ~(0 <= args.last_hour /\ args.last_hour <= 24)
       THEN /\ exc' = "AssertionError"
            /\ UNCHANGED << weather, rv >>
       ELSE IF CheckReportRaises(args.hourly, args.now_hour, args.last_hour)
       THEN /\ exc' = "TypeError"
            /\ UNCHANGED << weather, rv >>
       ELSE /\ weather' = check_report(args.hourly, args.now_hour, args.last_hour)
            /\ rv' = << GatherHours(NextDay(args.hourly), 1, args.now_hour,
                                    args.last_hour, << >>).hours >>
            /\ UNCHANGED exc
    /\ UNCHANGED << args, loop, has_broken, sleep, pc, clock, now_hour, snapshot, status,
                    cycle, hist, minute >>

NextReport == FnReport

SpecReport == InitReport /\ [][NextReport]_vars

\* ------------------------------------- simplify_hour and Status on one record
\* The raw records: uvi, temp and rain present or not, the values on both
\* sides of the thresholds.
RawInputs ==
    UNION { { h \in [ ks -> { 10, 20, 50, 60, 100, 250, 500, 28715, 29315, 30015 } ] :
                /\ h["wind_speed"] = 250
                /\ h["pop"] \in { 20, 60 }
                /\ "uvi" \in ks => h["uvi"] \in { 100, 500 }
                /\ "temp" \in ks => h["temp"] \in { 28715, 29315, 30015 }
                /\ "rain" \in ks => h["rain"] \in { 10, 50 } } :
            ks \in { { "wind_speed", "pop" } \cup opt : opt \in SUBSET { "uvi", "temp", "rain" } } }

\* Here args is the raw record.
InitHour ==
    /\ FnRest
    /\ pc = "fn_hour"
    /\ snapshot = << >>
    /\ status = << >>
    /\ args \in RawInputs
    /\ rv = << >>

\* simplify_hour(args) raises or returns the snapshot; Status comes next.
FnSimplify ==
    /\ pc = "fn_hour"
    /\ exc = ""
    /\ IF SimplifyRaises(args)
       THEN exc' = "TypeError" /\ UNCHANGED << snapshot, pc >>
       ELSE snapshot' = << simplify_hour(args) >> /\ pc' = "fn" /\ UNCHANGED exc
    /\ UNCHANGED << args, rv, loop, weather, has_broken, sleep, clock, now_hour, status,
                    cycle, hist, minute >>

NextHour == FnSimplify \/ FnStatus

SpecHour == InitHour /\ [][NextHour]_vars

\* ------------------------------------------------------ Loop(...) on its own
\* The stamps of the inputs: hours and minutes at and around the limits of the
\* two assertions, and one stamp without a colon.
StampInputs ==
    { hh \o << ":" >> \o mm :
        hh \in { << "0" >>, << "7" >>, << "2", "3" >>, << "2", "4" >> },
        mm \in { << "0", "0" >>, << "5", "9" >>, << "6", "0" >>, << "6", "1" >> } }
    \cup { << "7" >> }

\* int() of both parts succeeds and there are two parts to unpack.
StampWellFormed(chars) ==
    LET parts == SplitColon(chars)
    IN  Len(parts) = 2 /\ IsDigits(parts[1]) /\ IsDigits(parts[2])

\* Here args holds the two lists of stamps Loop is constructed with.
InitLoop ==
    /\ FnRest
    /\ pc = "fn_loop"
    /\ snapshot = << >>
    /\ status = << >>
    /\ args \in { [ next_hour_checks_at |-> << a >>, report_checks_at |-> << b >> ] :
                   a \in StampInputs, b \in StampInputs }
    /\ rv = << >>

\* Loop.__init__ runs: it stores the two lists, or the first stamp it cannot
\* take raises (ValueError when malformed, AssertionError when out of range).
FnLoop ==
    /\ pc = "fn_loop"
    /\ exc = ""
    /\ IF LoopConstructed(args.next_hour_checks_at, args.report_checks_at)
       THEN /\ loop' = [ next_hour_checks_at |-> ParseSchedule(args.next_hour_checks_at),
                          report_checks_at |-> ParseSchedule(args.report_checks_at) ]
            /\ pc' = "constructed"
            /\ UNCHANGED exc
       ELSE /\ LET stamps == args.next_hour_checks_at \o args.report_checks_at
                   bad == CHOOSE i \in DOMAIN stamps :
                              /\ ~StampAccepted(stamps[i])
                              /\ \A j \in 1..(i - 1) : StampAccepted(stamps[j])
               IN  exc' = IF StampWellFormed(stamps[bad]) THEN "AssertionError"
                          ELSE "ValueError"
            /\ UNCHANGED << loop, pc >>
    /\ UNCHANGED << args, rv, weather, has_broken, sleep, clock, now_hour, snapshot, status,
                    cycle, hist, minute >>

NextLoop == FnLoop

SpecLoop == InitLoop /\ [][NextLoop]_vars

\* ===================================================================== claims
\* The failure notifications among the post calls of the current iteration.
FailurePosts ==
    SelectSeq(cycle.posts,
              LAMBDA p : p.title \in { "weather stopped working", "weather not working" })

\* The post calls of the current iteration made for one of the two checks.
PostsOf(site) == SelectSeq(cycle.posts, LAMBDA p : p.site = site)

\* C1: every exception raised during a check cycle, the failure notification's
\* own send included, is caught and the loop goes on: the process never ends
\* because a fetch or a notify call failed.
C1_LoopNeverEnds == pc # "crashed"

\* C2: whenever the loop reaches its sleep, the interval is 60 s and the state
\* not failing after a cycle without exception, 15 min after the 1st exception
\* of a streak and 60 min after the 2nd and every later one.
C2_BackoffMonotonic ==
    pc = "sleep" =>
        /\ hist.streak = 0 => sleep = 60 /\ ~has_broken
        /\ hist.streak = 1 => sleep = 15 * 60 /\ has_broken
        /\ hist.streak >= 2 => sleep = 60 * 60 /\ has_broken

\* C2's case: the loop sleeps after the third exception in a row.
C2_Witness == pc = "sleep" /\ hist.streak = 3 /\ cycle.broken_before

\* C3: a cycle that raises issues exactly one failure notification: max
\* priority, 'weather stopped working', with the exception's message, when
\* the state was not failing before; min priority, 'weather not working',
\* when it was.  A cycle that does not raise issues none.
C3_OneFailureNotification ==
    /\ ~cycle.raised => Len(FailurePosts) = 0
    /\ cycle.raised /\ pc \in { "first_post", "repeat_post", "sleep", "crashed" } =>
          /\ Len(FailurePosts) = 1
          /\ ~cycle.broken_before =>
                /\ FailurePosts[1].title = "weather stopped working"
                /\ FailurePosts[1].priority = "max"
                /\ FailurePosts[1].data =
                      "Stopped working at: " \o StrfHM(cycle.handled_at) \o "\n"
                      \o "reason is: " \o exc \o "\n"
                      \o "will now check every 15 minutes but push priority will be minimal"
          /\ cycle.broken_before =>
                /\ FailurePosts[1].title = "weather not working"
                /\ FailurePosts[1].priority = "min"

\* C3's case: a cycle that began failing raised, and its handler has posted.
C3_Witness ==
    /\ pc = "sleep" /\ cycle.raised /\ cycle.broken_before
    /\ Len(FailurePosts) = 1

\* C4: while no fetch succeeds, a failure notification follows the first one
\* 15 minutes later: the cycle that wakes from the 15 minute sleep sends one.
C4_NotifiesAfter15Min ==
    pc = "sleep" /\ hist.woke_from = 15 * 60 /\ hist.fetch_failed =>
        Len(FailurePosts) >= 1

\* The conditions, in rule order, that hold of a raw hourly record.
ExpectedWarnings(raw) ==
    LET celsius == TruncDiv(raw["temp"] - 27315, 100)
    IN  SelectSeq(<< "PROB_RAIN", "COLD", "UV", "HOT" >>,
                  LAMBDA k : CASE k = "PROB_RAIN" -> raw["pop"] > 50
                               [] k = "COLD" -> celsius < 15
                               [] k = "UV" -> Get(raw, "uvi") > 200
                               [] k = "HOT" -> celsius > 25)

\* C5: after check_next_hour has completed in a cycle, no notification is
\* issued for the regular check when no condition holds of the fetched hour;
\* otherwise exactly one, titled with the most important warning and carrying
\* the warnings list.
C5_RegularNotification ==
    cycle.regular_done =>
        LET raw == cycle.reg_hourly[1]
            expected == ExpectedWarnings(raw)
            sent == PostsOf("regular")
        IN  /\ cycle.regular_trig
            /\ Len(expected) = 0 => Len(sent) = 0
            /\ Len(expected) > 0 =>
                  /\ Len(sent) = 1
                  /\ sent[1].title = "U+1F534: next hour: " \o expected[1]
                  /\ sent[1].data = get_long_message(Status(simplify_hour(raw)))

\* C5's case: the regular check found three warnings and its notification
\* was sent.
C5_Witness ==
    /\ pc = "sleep" /\ cycle.regular_done /\ ~cycle.raised
    /\ Len(PostsOf("regular")) = 1
    /\ PostsOf("regular")[1].title = "U+1F534: next hour: PROB_RAIN"
    /\ PostsOf("regular")[1].data = "U+1F327: 60\nU+E04A: 5\nU+1F975: 27"

\* C6: after check_report has completed in a cycle, one notification with the
\* report's result has been issued, good or not.
C6_ReportNotification ==
    cycle.report_done =>
        LET result == check_report(cycle.rep_hourly, now_hour, 24)
            sent == PostsOf("report")
        IN  /\ cycle.report_trig
            /\ Len(sent) = 1
            /\ sent[1].data = result.message
            /\ sent[1].title =
                  (IF result.is_good THEN "U+1F7E2" ELSE "U+1F534") \o ": " \o result.warning

\* C6's case: a good report was notified.
C6_Witness ==
    /\ pc = "sleep" /\ cycle.report_done /\ ~cycle.raised
    /\ Len(PostsOf("report")) = 1
    /\ PostsOf("report")[1].title = "U+1F7E2: "
    /\ PostsOf("report")[1].data = "Good weather! U+1F917"

\* C7: within one wall-clock minute each trigger class matches at most once.
C7_AtMostOneMatch == \A c \in Classes : minute.matches[c] <= 1

\* C7's case: a minute of both schedules was matched by both classes and the
\* cycle is over.
C7_Witness ==
    /\ pc = "sleep"
    /\ minute.matches["report"] = 1
    /\ minute.matches["regular"] = 1

\* C8: polls in state NORMAL are at most 60 s apart, so when the loop polls in
\* state NORMAL no scheduled minute has just gone by, the state NORMAL, without
\* its predicate being called.
C8_NoScheduledMinuteSkipped == pc = "top" /\ ~has_broken => minute.missed = {}

\* C9: each trigger predicate returns true iff the current (hour, minute) is
\* an entry of its schedule.
C9_TriggeredIffScheduled ==
    LET at == << HourOf(clock), MinuteOf(clock) >>
    IN  /\ pc = "report_get" =>
              cycle.report_trig /\ at \in Range(loop.report_checks_at)
        /\ pc = "regular" /\ ~cycle.report_trig =>
              at \notin Range(loop.report_checks_at)
        /\ pc = "regular_get" =>
              cycle.regular_trig /\ at \in Range(loop.next_hour_checks_at)
        /\ pc = "ok" /\ ~cycle.regular_trig =>
              at \notin Range(loop.next_hour_checks_at)

\* C9's case: the regular predicate has just fired at 17:00.
C9_Witness == pc = "regular_get" /\ HourOf(clock) = 17 /\ MinuteOf(clock) = 0

\* C10: warnings is within the keys of values; a condition is in warnings iff
\* the snapshot has it and its predicate holds (all strict); bools holds the
\* predicate's result for exactly the conditions the snapshot has.
C10_StatusWarnings ==
    status # << >> =>
        LET d == snapshot[1]
            st == status[1]
            Holds(k) == CASE k = "PROB_RAIN" -> d[k] > 50
                          [] k = "COLD" -> d[k] < 15
                          [] k = "UV" -> d[k] > 200
                          [] k = "HOT" -> d[k] > 25
            present == DOMAIN d \cap { "PROB_RAIN", "COLD", "UV", "HOT" }
        IN  /\ DOMAIN st.warnings \subseteq DOMAIN st.values
            /\ DOMAIN st.values = present
            /\ \A k \in present : st.values[k] = d[k]
            /\ DOMAIN st.warnings = { k \in present : Holds(k) }
            /\ \A k \in DOMAIN st.warnings : st.warnings[k] = d[k]
            /\ DOMAIN st.bools = present
            /\ \A k \in present : st.bools[k] = Holds(k)

\* C10's case: COLD at 14 is a warning, HOT at 25 is not, UV is absent.
C10_Witness ==
    /\ status # << >>
    /\ DOMAIN snapshot[1] = { "COLD", "HOT", "PROB_RAIN" }
    /\ snapshot[1]["COLD"] = 14 /\ snapshot[1]["HOT"] = 25
    /\ DOMAIN status[1].warnings = { "COLD", "PROB_RAIN" }

\* The hours whose flag is set in a sequence of (hour, flag) pairs.
FlaggedHours(arr) == { arr[i][1] : i \in { j \in DOMAIN arr : arr[j][2] } }

\* The maximal runs of consecutive integers of a set of hours, rendered: 'h'
\* for a run of one, 'start-end' for a longer one, in increasing order,
\* joined by ', '.
RunsString(hours) ==
    LET starts == Ascending({ h \in hours : h - 1 \notin hours })
        EndOf(a) == CHOOSE b \in hours :
                        /\ b >= a
                        /\ \A h \in a..b : h \in hours
                        /\ b + 1 \notin hours
    IN  Join([ i \in DOMAIN starts |->
                 IF EndOf(starts[i]) = starts[i]
                 THEN ToString(starts[i])
                 ELSE ToString(starts[i]) \o "-" \o ToString(EndOf(starts[i])) ],
             ", ")

\* C11: for a strictly increasing sequence of (hour, flag) pairs,
\* condition_pairs_to_string renders the flagged hours as the ', '-joined
\* maximal runs of consecutive integers in increasing order, a run of one as
\* 'h' and a longer one as 'start-end'; the empty string when none is flagged.
C11_RangeCompression ==
    pc = "fn_pairs" /\ rv # << >> =>
        /\ rv[1] = RunsString(FlaggedHours(args))
        /\ FlaggedHours(args) = {} => rv[1] = ""

\* C11's case: [7, 8, 9, 11, 13, 14] flagged, 10 and 12 present and not.
C11_Witness ==
    /\ pc = "fn_pairs"
    /\ FlaggedHours(args) = { 7, 8, 9, 11, 13, 14 }
    /\ Len(args) = 8
    /\ rv = << "7-9, 11, 13-14" >>

\* The hour of the day of a raw record's dt.
HourOfRecord(h) == (h["dt"] \div 3600) % 24

\* The first 24 records of a call's hourly list.
First24(call) ==
    SubSeq(call.hourly, 1, IF Len(call.hourly) < 24 THEN Len(call.hourly) ELSE 24)

\* The length of the longest prefix of the first 24 records whose hour lies
\* in now_hour <= hh < last_hour.
PrefixInWindow(call) ==
    LET nd == First24(call)
        In(i) == /\ call.now_hour <= HourOfRecord(nd[i])
                 /\ HourOfRecord(nd[i]) < call.last_hour
    IN  CHOOSE k \in 0..Len(nd) :
            /\ \A i \in 1..k : In(i)
            /\ k = Len(nd) \/ ~In(k + 1)

\* C12: check_report retains exactly the longest prefix of the first 24
\* records whose hour satisfies now_hour <= hh < last_hour: it stops at the
\* first record outside the window and evaluates no later one.
C12_RetainedPrefix ==
    pc = "fn_report" /\ rv # << >> =>
        LET nd == First24(args)
            k == PrefixInWindow(args)
        IN  /\ Len(rv[1]) = k
            /\ \A i \in 1..k :
                  /\ rv[1][i][1] = HourOfRecord(nd[i])
                  /\ rv[1][i][2] = Status(simplify_hour(nd[i]))

\* C12's case: at hour 8 the records are of the hours 8, 7 and 9: the second
\* is outside the window and the third, inside it, is not retained.
C12_Witness ==
    /\ pc = "fn_report" /\ rv # << >>
    /\ args.now_hour = 8 /\ args.last_hour = 24
    /\ Len(args.hourly) = 3
    /\ HourOfRecord(args.hourly[1]) = 8
    /\ HourOfRecord(args.hourly[2]) = 7
    /\ HourOfRecord(args.hourly[3]) = 9
    /\ Len(rv[1]) = 1

\* C13: after check_report completes, is_good is true with the fixed 'Good
\* weather!' message iff no condition is triggered on any retained hour (none
\* retained included); otherwise is_good is false and the message has one
\* line '{glyph}: {range-string}' for exactly the conditions with a triggered
\* retained hour, in rule order.
C13_ReportMessage ==
    pc = "fn_report" /\ rv # << >> =>
        LET nd == First24(args)
            k == PrefixInWindow(args)
            Trig(c, i) == \E j \in DOMAIN ExpectedWarnings(nd[i]) :
                              ExpectedWarnings(nd[i])[j] = c
            hit == SelectSeq(<< "PROB_RAIN", "COLD", "UV", "HOT" >>,
                             LAMBDA c : \E i \in 1..k : Trig(c, i))
            Glyph(c) == CASE c = "PROB_RAIN" -> "U+1F327" [] c = "COLD" -> "U+1F976"
                          [] c = "UV" -> "U+E04A" [] c = "HOT" -> "U+1F975"
            pairs(c) == [ i \in 1..k |-> << HourOfRecord(nd[i]), Trig(c, i) >> ]
            increasing == \A i \in 1..(k - 1) : HourOfRecord(nd[i]) < HourOfRecord(nd[i + 1])
            lines == [ n \in DOMAIN hit |->
                         Glyph(hit[n]) \o ": " \o condition_pairs_to_string(pairs(hit[n])) ]
        IN  /\ weather.is_good <=> Len(hit) = 0
            /\ Len(hit) = 0 =>
                  /\ weather.message = "Good weather! U+1F917"
                  /\ weather.warning = ""
            /\ Len(hit) > 0 =>
                  /\ weather.warning = "prepare for the day"
                  /\ weather.message = Join(lines, "\n")
                  /\ increasing =>
                        \A n \in DOMAIN hit :
                            lines[n] = Glyph(hit[n]) \o ": "
                                       \o RunsString(FlaggedHours(pairs(hit[n])))

\* C13's case: rain at 7 and 8, cold at 9, UV and heat at 8.
C13_Witness ==
    /\ pc = "fn_report" /\ rv # << >>
    /\ Len(rv[1]) = 3
    /\ ~weather.is_good
    /\ weather.message = "U+1F327: 7-8\nU+1F976: 9\nU+E04A: 8\nU+1F975: 8"

\* C14: get_most_important_warning returns the first condition of the order
\* PROB_RAIN, COLD, UV, HOT that is in warnings, '' when warnings is empty,
\* whatever the order of the keys in the input snapshot.
C14_MostImportantWarning ==
    pc = "fn" /\ rv # << >> =>
        LET present == SelectSeq(<< "PROB_RAIN", "COLD", "UV", "HOT" >>,
                                 LAMBDA k : k \in DOMAIN status[1].warnings)
        IN  /\ DOMAIN status[1].warnings = {} => rv[1] = ""
            /\ DOMAIN status[1].warnings # {} => rv[1] = present[1]

\* C14's case: the snapshot holds HOT first, then UV, then COLD, all three
\* are warnings, and COLD is returned.
C14_Witness ==
    /\ pc = "fn" /\ rv = << "COLD" >>
    /\ args = << "HOT", "UV", "COLD" >>
    /\ DOMAIN status[1].warnings = { "COLD", "UV", "HOT" }

\* C15: a raw record without uvi (its other fields there) yields a snapshot
\* without UV, and Status of that snapshot completes without error, UV absent
\* from values, bools and warnings.
C15_MissingUviTolerated ==
    pc = "fn" /\ "uvi" \notin DOMAIN args =>
        /\ "UV" \notin DOMAIN snapshot[1]
        /\ exc = ""
        /\ status # << >> =>
              /\ "UV" \notin DOMAIN status[1].values
              /\ "UV" \notin DOMAIN status[1].bools
              /\ "UV" \notin DOMAIN status[1].warnings

\* C16: once a scheduled minute has gone by during a sleep in failing state,
\* no cycle checks or notifies on its behalf: a check is begun only in a cycle
\* whose own poll minute is scheduled for the class, and a weather
\* notification is issued only for a check completed in the same cycle, once.
C16_DroppedNotDeferred ==
    hist.dropped # {} =>
        /\ pc = "report_get" => Scheduled(loop, "report", DayMinute(clock))
        /\ pc = "regular_get" => Scheduled(loop, "regular", DayMinute(clock))
        /\ cycle.report_done => cycle.report_trig
        /\ cycle.regular_done => cycle.regular_trig
        /\ Len(PostsOf("report")) <= IF cycle.report_done THEN 1 ELSE 0
        /\ Len(PostsOf("regular")) <= IF cycle.regular_done THEN 1 ELSE 0

\* C16's case: the cycle that wakes from the 15 minute sleep in which the
\* regular check's minute went by polls both predicates, checks nothing,
\* sends nothing and goes back to sleep.
C16_Witness ==
    /\ pc = "sleep" /\ hist.woke_from = 15 * 60 /\ cycle.broken_before
    /\ "regular" \in hist.dropped
    /\ ~cycle.report_trig /\ ~cycle.regular_trig
    /\ cycle.posts = << >>
    /\ MinuteOf(clock) \in 1..14

\* C17: every entry of a constructed Loop has its hour in 0..23 and its minute
\* in 0..59, and so is the (hour, minute) of some wall-clock minute of the day
\* at which its predicate fires; a stamp outside those bounds makes the
\* construction fail.
C17_AcceptedEntriesCanFire ==
    pc = "constructed" =>
        \A e \in Range(loop.next_hour_checks_at) \cup Range(loop.report_checks_at) :
            /\ 0 <= e[1] /\ e[1] <= 23
            /\ 0 <= e[2] /\ e[2] < 60
            /\ \E c \in 0..(DayTicks - 1) : ScanChecks(<< e >>, HourOf(c), MinuteOf(c))

\* C18: a cycle in which neither predicate fires is a successful one: it
\* raises nothing, issues no requests.get and no requests.post, and goes to
\* sleep not failing with sleep 60, also when it began failing.
C18_IdleCycleSucceeds ==
    /\ pc \notin { "start", "startup_post", "startup_failed" }
    /\ ~cycle.report_trig /\ ~cycle.regular_trig
    =>  /\ ~cycle.raised
        /\ pc \in { "top", "regular", "ok", "sleep", "assert_failed" }
        /\ cycle.gets = 0
        /\ cycle.posts = << >>
        /\ pc = "sleep" => ~has_broken /\ sleep = 60

\* C18's case: a cycle that woke failing from the 60 minute sleep polled both
\* predicates, neither fired, and it sleeps 60 s, not failing.
C18_Witness ==
    /\ pc = "sleep" /\ cycle.broken_before /\ hist.woke_from = 3600
    /\ ~cycle.report_trig /\ ~cycle.regular_trig
    /\ ~has_broken /\ sleep = 60

\* C19: at the top of every iteration sleep is 60, 900 or 3600 and has_broken
\* is False exactly when sleep is 60, so the assertion sleep >= 60 never
\* fails.
C19_SleepAtTop ==
    /\ pc = "top" =>
          /\ sleep \in { 60, 900, 3600 }
          /\ ~has_broken <=> sleep = 60
          /\ sleep >= 60
    /\ pc # "assert_failed"

\* C19's case: an iteration begins after the second failure in a row.
C19_Witness == pc = "top" /\ sleep = 3600 /\ has_broken /\ hist.streak >= 2

\* C20: in a cycle where both predicates fire the report check and its
\* notification are complete before the regular check starts; a weather
\* notification carries the result of a check completed earlier in the same
\* cycle; a check that raises leaves the Weather fields as they were; an
\* exception in the report path skips the regular check of the cycle.
C20_CycleOrder ==
    /\ cycle.report_trig /\ cycle.regular_trig =>
          /\ cycle.report_done
          /\ Len(cycle.posts) >= 1 /\ cycle.posts[1].site = "report"
          /\ Len(PostsOf("report")) = 1
          /\ \A i \in DOMAIN cycle.posts : cycle.posts[i].site = "regular" => i > 1
    /\ \A i \in DOMAIN cycle.posts :
          /\ cycle.posts[i].site = "report" =>
                /\ cycle.report_done
                /\ cycle.posts[i].data =
                      check_report(cycle.rep_hourly, now_hour, 24).message
          /\ cycle.posts[i].site = "regular" =>
                /\ cycle.regular_done
                /\ cycle.posts[i].data = check_next_hour(cycle.reg_hourly).message
                /\ cycle.posts[i].title =
                      "U+1F534: " \o check_next_hour(cycle.reg_hourly).warning
    /\ cycle.w_before # << >> => weather = cycle.w_before[1]
    /\ cycle.raised_in = "report" =>
          /\ ~cycle.regular_trig /\ ~cycle.regular_done
          /\ cycle.gets = 1
          /\ Len(PostsOf("regular")) = 0
          /\ pc \in { "except", "first_post", "repeat_post", "sleep", "crashed" }

\* C20's case: at a minute of both schedules the report was made and notified
\* (it found something), then the regular check raised: the Weather fields are
\* still the report's.
C20_Witness ==
    /\ pc = "except" /\ cycle.raised_in = "regular"
    /\ cycle.report_done /\ cycle.regular_trig
    /\ Len(PostsOf("report")) = 1
    /\ cycle.w_before # << >>
    /\ weather.warning = "prepare for the day"
    /\ weather.message = PostsOf("report")[1].data

====
